---- MODULE Spec2Model ----
(***************************************************************************)
(* Model of homework.py: the Training class hierarchy (Running,            *)
(* SportsWalking, Swimming), the InfoMessage record, read_package, main    *)
(* and the batch loop of the script.                                       *)
(*                                                                         *)
(* Numbers.  Python computes with ints and IEEE doubles.  The model        *)
(* computes with exact rationals <<n, d>> (d > 0, lowest terms), i.e. the  *)
(* real-number value of every formula; rounding errors of doubles (of the  *)
(* order of 1e-16 relative) are outside the model.                         *)
(* Exceptions.  A call returns a record whose field exc is "None" when     *)
(* the call returned and the exception's class name when it raised.        *)
(***************************************************************************)
EXTENDS Integers, Sequences, FiniteSets, TLC

VARIABLES classes, req, training, exc, last, ncalls, stdout, packages, idx, pc

vars == <<classes, req, training, exc, last, ncalls, stdout, packages, idx, pc>>

(***************************************************************************)
(* Exact rational arithmetic                                               *)
(***************************************************************************)
Abs(n) == IF n < 0 THEN -n ELSE n

RECURSIVE GCD(_, _)
GCD(a, b) == IF b = 0 THEN a ELSE GCD(b, a % b)

Rat(n, d) ==
    LET g == GCD(Abs(n), Abs(d))
        s == IF d < 0 THEN -1 ELSE 1
    IN  <<(s * n) \div g, (s * d) \div g>>

Num(n) == <<n, 1>>

Zero == Num(0)

Add(p, q) == Rat(p[1] * q[2] + q[1] * p[2], p[2] * q[2])

Sub(p, q) == Rat(p[1] * q[2] - q[1] * p[2], p[2] * q[2])

Mul(p, q) == Rat(p[1] * q[1], p[2] * q[2])

Quot(p, q) == Rat(p[1] * q[2], p[2] * q[1])

Less(p, q) == p[1] * q[2] < q[1] * p[2]

Floor(p) == p[1] \div p[2]

(***************************************************************************)
(* Results of calls                                                        *)
(***************************************************************************)
Ok(v) == [exc |-> "None", val |-> v]

Raise(e, v) == [exc |-> e, val |-> v]

\* Python's true division a / b
TrueDiv(a, b) ==
    IF a.exc # "None" THEN a
    ELSE IF b.exc # "None" THEN b
    ELSE IF b.val = Zero THEN Raise("ZeroDivisionError", Zero)
    ELSE Ok(Quot(a.val, b.val))

\* mutant of FloorDiv: the quotient is rounded up where the code rounds down
FloorDiv_ceil(a, b) ==
    IF a.exc # "None" THEN a
    ELSE IF b.exc # "None" THEN b
    ELSE IF b.val = Zero THEN Raise("ZeroDivisionError", Zero)
    ELSE Ok(Num(-Floor(Quot(Sub(Zero, a.val), b.val))))

\* Python's floor division a // b
FloorDiv(a, b) ==
    IF a.exc # "None" THEN a
    ELSE IF b.exc # "None" THEN b
    ELSE IF b.val = Zero THEN Raise("ZeroDivisionError", Zero)
    ELSE Ok(Num(Floor(Quot(a.val, b.val))))

Times(a, b) ==
    IF a.exc # "None" THEN a
    ELSE IF b.exc # "None" THEN b
    ELSE Ok(Mul(a.val, b.val))

Plus(a, b) ==
    IF a.exc # "None" THEN a
    ELSE IF b.exc # "None" THEN b
    ELSE Ok(Add(a.val, b.val))

Minus(a, b) ==
    IF a.exc # "None" THEN a
    ELSE IF b.exc # "None" THEN b
    ELSE Ok(Sub(a.val, b.val))

(***************************************************************************)
(* Classes: their attributes and constructors                              *)
(***************************************************************************)
\* mutant of ClassTable: Swimming does not override LEN_STEP
ClassTable_no_step ==
    [Training |-> [LEN_STEP |-> Rat(65, 100), M_IN_KM |-> Num(1000), HOUR |-> Num(60)],
     Running |-> [CALORIE_MULTIPLIER |-> Num(18), CALORIE_SUBSTRACTER |-> Num(20)],
     SportsWalking |-> [CALORIE_MULTIPLIER_1 |-> Rat(35, 1000),
                        CALORIE_MULTIPLIER_2 |-> Rat(29, 1000)],
     Swimming |-> [CALORIE_PLUSER |-> Rat(11, 10), CALORIE_MULTIPLIER |-> Num(2)]]

ClassTable ==
    [Training |-> [LEN_STEP |-> Rat(65, 100), M_IN_KM |-> Num(1000), HOUR |-> Num(60)],
     Running |-> [CALORIE_MULTIPLIER |-> Num(18), CALORIE_SUBSTRACTER |-> Num(20)],
     SportsWalking |-> [CALORIE_MULTIPLIER_1 |-> Rat(35, 1000),
                        CALORIE_MULTIPLIER_2 |-> Rat(29, 1000)],
     Swimming |-> [CALORIE_PLUSER |-> Rat(11, 10), CALORIE_MULTIPLIER |-> Num(2),
                   LEN_STEP |-> Rat(138, 100)]]

\* self.NAME for a class attribute: the instance's class first, then its base
ClassAttr(self, name) ==
    IF name \in DOMAIN classes[self.cls]
    THEN Ok(classes[self.cls][name])
    ELSE Ok(classes["Training"][name])

\* self.name for an instance attribute
Field(self, name) == Ok(self.attrs[name])

NoAttrs == [f \in {} |-> Zero]

NoTraining == [cls |-> "None", attrs |-> NoAttrs]

Training_init(cls, action, duration, weight) ==
    [cls |-> cls,
     attrs |-> ("action" :> action) @@ ("duration" :> duration) @@ ("weight" :> weight)]

Running_init(action, duration, weight) ==
    Training_init("Running", action, duration, weight)

SportsWalking_init(action, duration, weight, height) ==
    LET self == Training_init("SportsWalking", action, duration, weight)
    IN  [self EXCEPT !.attrs = @ @@ ("height" :> height)]

\* mutant of Swimming_init: the two pool parameters are stored crosswise
Swimming_init_swapped(action, duration, weight, length_pool, count_pool) ==
    LET self == Training_init("Swimming", action, duration, weight)
    IN  [self EXCEPT !.attrs = @ @@ ("length_pool" :> count_pool)
                                  @@ ("count_pool" :> length_pool)]

Swimming_init(action, duration, weight, length_pool, count_pool) ==
    LET self == Training_init("Swimming", action, duration, weight)
    IN  [self EXCEPT !.attrs = @ @@ ("length_pool" :> length_pool)
                                  @@ ("count_pool" :> count_pool)]

\* the positional parameters of each constructor, after self
Params(cls) ==
    CASE cls = "Training" -> <<"action", "duration", "weight">>
      [] cls = "Running" -> <<"action", "duration", "weight">>
      [] cls = "SportsWalking" -> <<"action", "duration", "weight", "height">>
      [] cls = "Swimming" ->
            <<"action", "duration", "weight", "length_pool", "count_pool">>

\* mutant of New: surplus positional arguments are dropped instead of refused
New_lenient(cls, data) ==
    IF Len(data) < Len(Params(cls)) THEN Raise("TypeError", NoTraining)
    ELSE CASE cls = "Training" -> Ok(Training_init("Training", data[1], data[2], data[3]))
           [] cls = "Running" -> Ok(Running_init(data[1], data[2], data[3]))
           [] cls = "SportsWalking" ->
                 Ok(SportsWalking_init(data[1], data[2], data[3], data[4]))
           [] cls = "Swimming" ->
                 Ok(Swimming_init(data[1], data[2], data[3], data[4], data[5]))

\* cls(*data): a call with the wrong number of positional arguments is a TypeError
New(cls, data) ==
    IF Len(data) # Len(Params(cls)) THEN Raise("TypeError", NoTraining)
    ELSE CASE cls = "Training" -> Ok(Training_init("Training", data[1], data[2], data[3]))
           [] cls = "Running" -> Ok(Running_init(data[1], data[2], data[3]))
           [] cls = "SportsWalking" ->
                 Ok(SportsWalking_init(data[1], data[2], data[3], data[4]))
           [] cls = "Swimming" ->
                 Ok(Swimming_init(data[1], data[2], data[3], data[4], data[5]))

(***************************************************************************)
(* Methods                                                                 *)
(***************************************************************************)
Training_get_distance(self) ==
    TrueDiv(Times(Field(self, "action"), ClassAttr(self, "LEN_STEP")),
            ClassAttr(self, "M_IN_KM"))

Training_get_spent_calories(self) == Raise("NotImplementedError", Zero)

Swimming_get_mean_speed(self) ==
    TrueDiv(TrueDiv(Times(Field(self, "length_pool"), Field(self, "count_pool")),
                    ClassAttr(self, "M_IN_KM")),
            Field(self, "duration"))

\* method resolution: Swimming overrides get_mean_speed, the others inherit it
get_distance(self) == Training_get_distance(self)

Training_get_mean_speed(self) ==
    TrueDiv(get_distance(self), Field(self, "duration"))

\* mutant of get_mean_speed: Swimming's override is missing
get_mean_speed_inherited(self) == Training_get_mean_speed(self)

get_mean_speed(self) ==
    IF self.cls = "Swimming" THEN Swimming_get_mean_speed(self)
    ELSE Training_get_mean_speed(self)

\* mutant of Running_get_spent_calories: the subtraction is done before the product
Running_get_spent_calories_misparen(self) ==
    Times(TrueDiv(Times(Times(ClassAttr(self, "CALORIE_MULTIPLIER"),
                              Minus(get_mean_speed(self),
                                    ClassAttr(self, "CALORIE_SUBSTRACTER"))),
                        Field(self, "weight")),
                  ClassAttr(self, "M_IN_KM")),
          Times(Field(self, "duration"), ClassAttr(self, "HOUR")))

Running_get_spent_calories(self) ==
    Times(TrueDiv(Times(Minus(Times(ClassAttr(self, "CALORIE_MULTIPLIER"),
                                    get_mean_speed(self)),
                              ClassAttr(self, "CALORIE_SUBSTRACTER")),
                        Field(self, "weight")),
                  ClassAttr(self, "M_IN_KM")),
          Times(Field(self, "duration"), ClassAttr(self, "HOUR")))

SportsWalking_get_spent_calories(self) ==
    Times(Plus(Times(ClassAttr(self, "CALORIE_MULTIPLIER_1"), Field(self, "weight")),
               Times(Times(FloorDiv(Times(get_mean_speed(self), get_mean_speed(self)),
                                    Field(self, "height")),
                           ClassAttr(self, "CALORIE_MULTIPLIER_2")),
                     Field(self, "weight"))),
          Times(Field(self, "duration"), ClassAttr(self, "HOUR")))

Swimming_get_spent_calories(self) ==
    Times(Times(Plus(get_mean_speed(self), ClassAttr(self, "CALORIE_PLUSER")),
                ClassAttr(self, "CALORIE_MULTIPLIER")),
          Field(self, "weight"))

\* mutant of get_spent_calories: Running does not override the base method
get_spent_calories_no_override(self) ==
    CASE self.cls = "SportsWalking" -> SportsWalking_get_spent_calories(self)
      [] self.cls = "Swimming" -> Swimming_get_spent_calories(self)
      [] OTHER -> Training_get_spent_calories(self)

get_spent_calories(self) ==
    CASE self.cls = "Running" -> Running_get_spent_calories(self)
      [] self.cls = "SportsWalking" -> SportsWalking_get_spent_calories(self)
      [] self.cls = "Swimming" -> Swimming_get_spent_calories(self)
      [] OTHER -> Training_get_spent_calories(self)

NoInfo ==
    [training_type |-> "None", duration |-> Zero, distance |-> Zero,
     speed |-> Zero, calories |-> Zero]

InfoMessage(training_type, duration, distance, speed, calories) ==
    [training_type |-> training_type, duration |-> duration, distance |-> distance,
     speed |-> speed, calories |-> calories]

\* the arguments are evaluated left to right; the first one that raises ends the call
show_training_info(self) ==
    LET duration == Field(self, "duration")
        distance == get_distance(self)
        speed == get_mean_speed(self)
        calories == get_spent_calories(self)
    IN  IF distance.exc # "None" THEN Raise(distance.exc, NoInfo)
        ELSE IF speed.exc # "None" THEN Raise(speed.exc, NoInfo)
        ELSE IF calories.exc # "None" THEN Raise(calories.exc, NoInfo)
        ELSE Ok(InfoMessage(self.cls, duration.val, distance.val, speed.val,
                            calories.val))

\* format(x, ".3f"): the number of thousandths nearest to x, ties to even
Fixed3(x) ==
    LET m == Mul(x, Num(1000))
        f == Floor(m)
        r == Sub(m, Num(f))
        half == Rat(1, 2)
    IN  IF Less(r, half) THEN f
        ELSE IF Less(half, r) THEN f + 1
        ELSE IF f % 2 = 0 THEN f ELSE f + 1

\* the text of the message is fixed up to the five formatted fields
get_message(info) ==
    [training_type |-> info.training_type,
     duration |-> Fixed3(info.duration),
     distance |-> Fixed3(info.distance),
     speed |-> Fixed3(info.speed),
     calories |-> Fixed3(info.calories)]

NoMessage ==
    [training_type |-> "None", duration |-> 0, distance |-> 0, speed |-> 0,
     calories |-> 0]

WORKOUT_DICTIONARY ==
    [SWM |-> "Swimming", RUN |-> "Running", WLK |-> "SportsWalking"]

\* mutant of read_package: an unknown code falls back to Running
read_package_default(workout_type, data) ==
    IF workout_type \notin DOMAIN WORKOUT_DICTIONARY
    THEN New("Running", data)
    ELSE New(WORKOUT_DICTIONARY[workout_type], data)

read_package(workout_type, data) ==
    IF workout_type \notin DOMAIN WORKOUT_DICTIONARY
    THEN Raise("RuntimeError", NoTraining)
    ELSE New(WORKOUT_DICTIONARY[workout_type], data)

\* main(training): the line it prints, or the exception that leaves it
main(self) ==
    LET info == show_training_info(self)
    IN  IF info.exc # "None" THEN Raise(info.exc, NoMessage)
        ELSE Ok(get_message(info.val))

(***************************************************************************)
(* Inputs                                                                  *)
(***************************************************************************)
MinRowLen == 2

MaxRowLen == 6

MaxCalls == 3

MaxPackages == 3

ActionVals == {Num(0), Num(720), Num(9000), Num(15000)}

DurationVals == {Num(0), Num(1), Num(2), Rat(1, 2)}

WeightVals == {Num(75), Num(80)}

\* the fourth element of a row: a height in cm or a pool length in m
FourthVals == {Num(0), Num(25), Num(180)}

\* the values a row may hold at position k
RowVals(k) ==
    CASE k = 1 -> ActionVals
      [] k = 2 -> DurationVals
      [] k = 3 -> WeightVals
      [] k = 4 -> FourthVals
      [] k = 5 -> {Num(40)}
      [] OTHER -> {Num(1)}

RowsOfLen(n) == {r \in [1..n -> UNION {RowVals(k) : k \in 1..n}] :
                    \A k \in 1..n : r[k] \in RowVals(k)}

Rows == UNION {RowsOfLen(n) : n \in MinRowLen..MaxRowLen}

Codes == {"SWM", "RUN", "WLK", "XYZ"}

Ops == {"get_distance", "get_mean_speed", "get_spent_calories", "show_training_info"}

Calls == Ops \cup {"main"}

\* the outcome of the latest call of a method: the value of a numeric method
\* in val, the record of show_training_info in info
NotCalled == [called |-> FALSE, exc |-> "None", val |-> Zero, info |-> NoInfo]

Returned(r) == [called |-> TRUE, exc |-> r.exc, val |-> r.val, info |-> NoInfo]

ReturnedInfo(r) == [called |-> TRUE, exc |-> r.exc, val |-> Zero, info |-> r.val]

NoReq == [called |-> FALSE, workout_type |-> "", data |-> <<>>]

\* the packages of the script and readings that fail
SamplePackages ==
    {<<"SWM", <<Num(720), Num(1), Num(80), Num(25), Num(40)>>>>,
     <<"RUN", <<Num(15000), Num(1), Num(75)>>>>,
     <<"WLK", <<Num(9000), Num(1), Num(75), Num(180)>>>>}

FailingPackages ==
    {<<"XYZ", <<Num(720), Num(1), Num(80)>>>>,
     <<"RUN", <<Num(15000), Num(1)>>>>,
     <<"WLK", <<Num(9000), Num(0), Num(75), Num(180)>>>>}

Readings == SamplePackages \cup FailingPackages

PackageLists == UNION {[1..n -> Readings] : n \in 0..MaxPackages}

(***************************************************************************)
(* The module used as a library: one workout is built, then queried        *)
(***************************************************************************)
Init ==
    /\ classes = ClassTable
    /\ req = NoReq
    /\ training = NoTraining
    /\ exc = "None"
    /\ last = [op \in Calls |-> NotCalled]
    /\ ncalls = 0
    /\ stdout = <<>>
    /\ packages = <<>>
    /\ idx = 0
    /\ pc = "lib"

\* training = read_package(workout_type, data)
ReadPackage ==
    /\ pc = "lib" /\ ~req.called /\ training = NoTraining
    /\ \E workout_type \in Codes, data \in Rows :
          LET r == read_package(workout_type, data)
          IN  /\ req' = [called |-> TRUE, workout_type |-> workout_type, data |-> data]
              /\ training' = r.val
              /\ exc' = r.exc
    /\ UNCHANGED <<classes, last, ncalls, stdout, packages, idx, pc>>

\* training = Training(action, duration, weight)
NewTraining ==
    /\ pc = "lib" /\ ~req.called /\ training = NoTraining
    /\ \E action \in ActionVals, duration \in DurationVals, weight \in WeightVals :
          training' = New("Training", <<action, duration, weight>>).val
    /\ UNCHANGED <<classes, req, exc, last, ncalls, stdout, packages, idx, pc>>

CanCall == pc = "lib" /\ training # NoTraining /\ ncalls < MaxCalls

\* mutant of GetDistance: the method keeps its result in self.action
GetDistance_storing ==
    /\ CanCall
    /\ last' = [last EXCEPT !["get_distance"] = Returned(get_distance(training))]
    /\ training' = [training EXCEPT !.attrs["action"] = get_distance(training).val]
    /\ ncalls' = ncalls + 1
    /\ UNCHANGED <<classes, req, exc, stdout, packages, idx, pc>>

GetDistance ==
    /\ CanCall
    /\ last' = [last EXCEPT !["get_distance"] = Returned(get_distance(training))]
    /\ ncalls' = ncalls + 1
    /\ UNCHANGED <<classes, req, training, exc, stdout, packages, idx, pc>>

GetMeanSpeed ==
    /\ CanCall
    /\ last' = [last EXCEPT !["get_mean_speed"] = Returned(get_mean_speed(training))]
    /\ ncalls' = ncalls + 1
    /\ UNCHANGED <<classes, req, training, exc, stdout, packages, idx, pc>>

GetSpentCalories ==
    /\ CanCall
    /\ last' = [last EXCEPT !["get_spent_calories"] =
                               Returned(get_spent_calories(training))]
    /\ ncalls' = ncalls + 1
    /\ UNCHANGED <<classes, req, training, exc, stdout, packages, idx, pc>>

ShowTrainingInfo ==
    /\ CanCall
    /\ last' = [last EXCEPT !["show_training_info"] =
                               ReturnedInfo(show_training_info(training))]
    /\ ncalls' = ncalls + 1
    /\ UNCHANGED <<classes, req, training, exc, stdout, packages, idx, pc>>

\* main(training): prints the message unless show_training_info raises
Main ==
    /\ CanCall
    /\ LET r == main(training)
       IN  /\ stdout' = IF r.exc = "None" THEN Append(stdout, r.val) ELSE stdout
           /\ last' = [last EXCEPT !["main"] = Returned(Raise(r.exc, Zero))]
    /\ ncalls' = ncalls + 1
    /\ UNCHANGED <<classes, req, training, exc, packages, idx, pc>>

Next ==
    \/ ReadPackage
    \/ NewTraining
    \/ GetDistance
    \/ GetMeanSpeed
    \/ GetSpentCalories
    \/ ShowTrainingInfo
    \/ Main

Spec == Init /\ [][Next]_vars

(***************************************************************************)
(* The module run as a script: the loop over packages                      *)
(***************************************************************************)
DriverInit ==
    /\ classes = ClassTable
    /\ req = NoReq
    /\ training = NoTraining
    /\ exc = "None"
    /\ last = [op \in Calls |-> NotCalled]
    /\ ncalls = 0
    /\ stdout = <<>>
    /\ packages \in PackageLists
    /\ idx = 1
    /\ pc = "read"

\* mutant of DriverRead: a reading that cannot be read is skipped
DriverRead_skipping ==
    /\ pc = "read" /\ idx <= Len(packages)
    /\ LET workout_type == packages[idx][1]
           data == packages[idx][2]
           r == read_package(workout_type, data)
       IN  /\ req' = [called |-> TRUE, workout_type |-> workout_type, data |-> data]
           /\ training' = IF r.exc = "None" THEN r.val ELSE training
           /\ exc' = r.exc
           /\ pc' = IF r.exc = "None" THEN "main" ELSE "read"
           /\ idx' = IF r.exc = "None" THEN idx ELSE idx + 1
    /\ UNCHANGED <<classes, last, ncalls, stdout, packages>>

\* training = read_package(workout_type, data) for the next element of packages
DriverRead ==
    /\ pc = "read" /\ idx <= Len(packages)
    /\ LET workout_type == packages[idx][1]
           data == packages[idx][2]
           r == read_package(workout_type, data)
       IN  /\ req' = [called |-> TRUE, workout_type |-> workout_type, data |-> data]
           /\ training' = IF r.exc = "None" THEN r.val ELSE training
           /\ exc' = r.exc
           /\ pc' = IF r.exc = "None" THEN "main" ELSE "raised"
    /\ UNCHANGED <<classes, last, ncalls, stdout, packages, idx>>

\* main(training), then on to the next element
DriverMain ==
    /\ pc = "main"
    /\ LET r == main(training)
       IN  /\ stdout' = IF r.exc = "None" THEN Append(stdout, r.val) ELSE stdout
           /\ exc' = r.exc
           /\ pc' = IF r.exc = "None" THEN "read" ELSE "raised"
           /\ idx' = IF r.exc = "None" THEN idx + 1 ELSE idx
    /\ UNCHANGED <<classes, req, training, last, ncalls, packages>>

\* packages is exhausted: the script ends
DriverExit ==
    /\ pc = "read" /\ idx > Len(packages)
    /\ pc' = "done"
    /\ UNCHANGED <<classes, req, training, exc, last, ncalls, stdout, packages, idx>>

DriverNext ==
    \/ DriverRead
    \/ DriverMain
    \/ DriverExit

DriverSpec == DriverInit /\ [][DriverNext]_vars

(***************************************************************************)
(* Properties                                                              *)
(***************************************************************************)
KnownCodes == {"SWM", "RUN", "WLK"}

Positive(x) == Less(Zero, x)

Attr(name) == training.attrs[name]

\* the number of elements the claims give for the row of each code
RowLength(code) ==
    CASE code = "SWM" -> 5
      [] code = "RUN" -> 3
      [] code = "WLK" -> 4

\* the instance the claims give for a code and a row of that length
Instance(code, d) ==
    CASE code = "SWM" ->
            [cls |-> "Swimming",
             attrs |-> [action |-> d[1], duration |-> d[2], weight |-> d[3],
                        length_pool |-> d[4], count_pool |-> d[5]]]
      [] code = "RUN" ->
            [cls |-> "Running",
             attrs |-> [action |-> d[1], duration |-> d[2], weight |-> d[3]]]
      [] code = "WLK" ->
            [cls |-> "SportsWalking",
             attrs |-> [action |-> d[1], duration |-> d[2], weight |-> d[3],
                        height |-> d[4]]]

\* C1: read_package called with a code other than SWM, RUN, WLK raises the
\* unknown-workout-type error (RuntimeError) and yields no instance, whatever
\* the row is.
C1_UnknownCodeRaises ==
    (req.called /\ req.workout_type \notin KnownCodes)
        => (exc = "RuntimeError" /\ training = NoTraining)

C1_Witness ==
    /\ req.called /\ req.workout_type = "XYZ" /\ Len(req.data) = 5
    /\ exc = "RuntimeError"

\* C2: read_package called with a known code and a row of the variant's length
\* returns an instance of the mapped class whose fields are the row's elements
\* in declaration order.
C2_KnownCodeBuildsVariant ==
    (req.called /\ req.workout_type \in KnownCodes
                /\ Len(req.data) = RowLength(req.workout_type))
        => (exc = "None" /\ training = Instance(req.workout_type, req.data))

C2_Witness ==
    /\ req.called /\ req.workout_type = "SWM" /\ Len(req.data) = 5
    /\ training.cls = "Swimming"
    /\ Attr("length_pool") = Num(25) /\ Attr("count_pool") = Num(40)

\* C3: read_package called with a known code and a row shorter or longer than
\* the variant's length fails with the wrong-arity error (TypeError) and yields
\* no instance.
C3_WrongArityRaises ==
    (req.called /\ req.workout_type \in KnownCodes
                /\ Len(req.data) # RowLength(req.workout_type))
        => (exc = "TypeError" /\ training = NoTraining)

C3_Witness ==
    /\ req.called /\ req.workout_type = "RUN" /\ Len(req.data) = 4
    /\ exc = "TypeError"

Result(op) == last[op]

Returns(op) == last[op].called /\ last[op].exc = "None"

AbsDiff(x, y) == IF Less(x, y) THEN Sub(y, x) ELSE Sub(x, y)

\* equal to three decimal places
Approx(x, y) == Less(AbsDiff(x, y), Rat(1, 1000))

RunSample ==
    /\ req.called /\ req.workout_type = "RUN"
    /\ req.data = <<Num(15000), Num(1), Num(75)>>

WalkSample ==
    /\ req.called /\ req.workout_type = "WLK"
    /\ req.data = <<Num(9000), Num(1), Num(75), Num(180)>>

SwimSample ==
    /\ req.called /\ req.workout_type = "SWM"
    /\ req.data = <<Num(720), Num(1), Num(80), Num(25), Num(40)>>

\* C4 as stated: code RUN with row [15000, 1, 75] gives distance 9.75, speed
\* 9.75 and spent calories of approximately 694.575.
C4_Original ==
    RunSample =>
        /\ Result("get_distance").called =>
              (Returns("get_distance") /\ Result("get_distance").val = Rat(975, 100))
        /\ Result("get_mean_speed").called =>
              (Returns("get_mean_speed") /\ Result("get_mean_speed").val = Rat(975, 100))
        /\ Result("get_spent_calories").called =>
              (Returns("get_spent_calories")
               /\ Approx(Result("get_spent_calories").val, Rat(694575, 1000)))

\* C4 amended: code RUN with row [15000, 1, 75] gives distance 9.75, speed 9.75
\* and spent calories (18 * speed - 20) * weight / 1000 * (duration * 60),
\* which is 699.75.
C4_RunSample ==
    RunSample =>
        /\ Result("get_distance").called =>
              (Returns("get_distance") /\ Result("get_distance").val = Rat(975, 100))
        /\ Result("get_mean_speed").called =>
              (Returns("get_mean_speed") /\ Result("get_mean_speed").val = Rat(975, 100))
        /\ Result("get_spent_calories").called =>
              (Returns("get_spent_calories")
               /\ Result("get_spent_calories").val = Rat(69975, 100)
               /\ Result("get_spent_calories").val =
                     Mul(Quot(Mul(Sub(Mul(Num(18), Rat(975, 100)), Num(20)), Num(75)),
                              Num(1000)),
                         Mul(Num(1), Num(60))))

C4_Witness ==
    /\ RunSample
    /\ Returns("get_distance") /\ Returns("get_mean_speed")
    /\ Returns("get_spent_calories")

WithAction(self, a) == [self EXCEPT !.attrs["action"] = a]

\* C5: two Swimming instances that differ only in their action count (same
\* positive duration, weight, pool length and lap count) have the same mean
\* speed and the same spent calories.
C5_SwimmingIgnoresAction ==
    (training.cls = "Swimming" /\ Positive(Attr("duration"))) =>
        \A a \in ActionVals :
            /\ get_mean_speed(WithAction(training, a)) = get_mean_speed(training)
            /\ get_spent_calories(WithAction(training, a)) = get_spent_calories(training)
            /\ Returns("get_mean_speed") =>
                  get_mean_speed(WithAction(training, a)).val
                      = Result("get_mean_speed").val
            /\ Returns("get_spent_calories") =>
                  get_spent_calories(WithAction(training, a)).val
                      = Result("get_spent_calories").val

C5_Witness ==
    /\ training.cls = "Swimming" /\ Positive(Attr("duration"))
    /\ Attr("action") = Num(720)
    /\ Returns("get_mean_speed") /\ Returns("get_spent_calories")
    /\ Positive(Result("get_mean_speed").val)

\* C6: on a constructed workout a call of get_distance, get_mean_speed,
\* get_spent_calories or show_training_info changes no field of the instance
\* and no class constant, and a repeated call of an operation returns what its
\* previous call returned.
C6_QueriesArePure ==
    [][training # NoTraining =>
          /\ training' = training
          /\ classes' = classes
          /\ \A op \in Ops : last[op].called => last'[op] = last[op]]_vars

\* the same operation has been called twice
C6_Witness ==
    /\ training # NoTraining
    /\ ncalls >= 2
    /\ ~last["main"].called
    /\ Cardinality({op \in Ops : last[op].called}) = 1

Variants == {"Running", "SportsWalking", "Swimming"}

\* positive duration, and positive height for walking
PositiveInputs ==
    /\ Positive(Attr("duration"))
    /\ training.cls = "SportsWalking" => Positive(Attr("height"))

\* C7 as stated: on a base instance get_spent_calories signals not-implemented
\* and show_training_info fails with that same signal and produces no record;
\* on a variant with positive inputs show_training_info never raises it.
C7_Original ==
    /\ (training.cls = "Training" /\ Result("get_spent_calories").called)
          => Result("get_spent_calories").exc = "NotImplementedError"
    /\ (training.cls = "Training" /\ Result("show_training_info").called)
          => /\ Result("show_training_info").exc = "NotImplementedError"
             /\ Result("show_training_info").info = NoInfo
    /\ (training.cls \in Variants /\ PositiveInputs
           /\ Result("show_training_info").called)
          => Result("show_training_info").exc # "NotImplementedError"

\* C7 amended: on a base instance get_spent_calories signals not-implemented;
\* show_training_info on a base instance produces no record and fails with
\* that same signal when the duration is not zero, and with a division by zero
\* (raised by get_mean_speed, which is evaluated first) when the duration is
\* zero; on a variant with positive inputs show_training_info never raises the
\* not-implemented signal.
C7_BaseNotImplemented ==
    /\ (training.cls = "Training" /\ Result("get_spent_calories").called)
          => Result("get_spent_calories").exc = "NotImplementedError"
    /\ (training.cls = "Training" /\ Result("show_training_info").called)
          => /\ Result("show_training_info").exc =
                   IF Attr("duration") = Zero THEN "ZeroDivisionError"
                   ELSE "NotImplementedError"
             /\ Result("show_training_info").info = NoInfo
    /\ (training.cls \in Variants /\ PositiveInputs
           /\ Result("show_training_info").called)
          => Result("show_training_info").exc # "NotImplementedError"

\* a base instance with a duration that is not zero, both calls made
C7_Witness ==
    /\ training.cls = "Training" /\ Attr("duration") # Zero
    /\ Result("get_spent_calories").called
    /\ Result("show_training_info").called
    /\ Result("show_training_info").exc = "NotImplementedError"

\* the speed of a walking workout, from its fields
WalkSpeed == Quot(Quot(Mul(Attr("action"), Rat(65, 100)), Num(1000)), Attr("duration"))

\* floor(speed^2 / height), rounding toward negative infinity
WalkFloor == Floor(Quot(Mul(WalkSpeed, WalkSpeed), Attr("height")))

\* C9: for a walking workout with positive duration and height,
\* get_spent_calories = (0.035 * weight + floor(speed^2 / height) * 0.029 *
\* weight) * (duration * 60) with speed = action * 0.65 / 1000 / duration;
\* when 0 <= speed^2 < height it is 0.035 * weight * duration * 60; the row
\* [9000, 1, 75, 180] gives distance 5.85, speed 5.85 and calories 157.5.
C9_WalkingCalories ==
    /\ (training.cls = "SportsWalking" /\ PositiveInputs
           /\ Result("get_spent_calories").called)
          => /\ Returns("get_spent_calories")
             /\ Result("get_spent_calories").val =
                   Mul(Add(Mul(Rat(35, 1000), Attr("weight")),
                           Mul(Mul(Num(WalkFloor), Rat(29, 1000)), Attr("weight"))),
                       Mul(Attr("duration"), Num(60)))
             /\ (~Less(Mul(WalkSpeed, WalkSpeed), Zero)
                    /\ Less(Mul(WalkSpeed, WalkSpeed), Attr("height")))
                   => Result("get_spent_calories").val =
                         Mul(Mul(Mul(Rat(35, 1000), Attr("weight")), Attr("duration")),
                             Num(60))
    /\ (WalkSample /\ Result("get_distance").called)
          => (Returns("get_distance") /\ Result("get_distance").val = Rat(585, 100))
    /\ (WalkSample /\ Result("get_mean_speed").called)
          => (Returns("get_mean_speed") /\ Result("get_mean_speed").val = Rat(585, 100))
    /\ (WalkSample /\ Result("get_spent_calories").called)
          => (Returns("get_spent_calories")
              /\ Result("get_spent_calories").val = Rat(1575, 10))

\* a walk whose floor term is not zero
C9_Witness ==
    /\ training.cls = "SportsWalking" /\ PositiveInputs
    /\ Returns("get_spent_calories")
    /\ WalkFloor >= 2
    /\ Num(WalkFloor) # Quot(Mul(WalkSpeed, WalkSpeed), Attr("height"))

LenStepOf(cls) == IF cls = "Swimming" THEN Rat(138, 100) ELSE Rat(65, 100)

\* C10: the record of show_training_info carries the variant's type name, the
\* duration unchanged, distance = action * LEN_STEP / 1000 with the variant's
\* LEN_STEP (0.65 running and walking, 1.38 swimming), and the speed and
\* calories of the variant's own methods; so speed * duration = distance for
\* running and walking, while the swimming row [720, 1, 80, 25, 40] gives
\* distance 0.9936, speed 1.0, calories 336.0, where speed # distance / duration.
C10_RecordContents ==
    Returns("show_training_info") =>
        LET info == Result("show_training_info").info
        IN  /\ info.training_type = training.cls
            /\ info.duration = Attr("duration")
            /\ info.distance =
                  Quot(Mul(Attr("action"), LenStepOf(training.cls)), Num(1000))
            /\ Result("get_mean_speed").called =>
                  info.speed = Result("get_mean_speed").val
            /\ Result("get_spent_calories").called =>
                  info.calories = Result("get_spent_calories").val
            /\ training.cls = "Swimming" =>
                  info.speed = Quot(Quot(Mul(Attr("length_pool"), Attr("count_pool")),
                                         Num(1000)),
                                    Attr("duration"))
            /\ training.cls \in {"Running", "SportsWalking"} =>
                  Mul(info.speed, info.duration) = info.distance
            /\ SwimSample =>
                  /\ info.distance = Rat(9936, 10000)
                  /\ info.speed = Num(1)
                  /\ info.calories = Num(336)
                  /\ info.speed # Quot(info.distance, info.duration)

C10_Witness ==
    /\ SwimSample
    /\ Returns("show_training_info")
    /\ Returns("get_mean_speed") /\ Returns("get_spent_calories")

\* a reading is valid when it can be read and its summary can be computed
Valid(p) ==
    LET r == read_package(p[1], p[2])
    IN  r.exc = "None" /\ main(r.val).exc = "None"

\* the line printed for a valid reading, from its own code and row
Summary(p) == main(read_package(p[1], p[2]).val).val

Failing == {i \in 1..Len(packages) : ~Valid(packages[i])}

FirstFailure ==
    IF Failing = {} THEN Len(packages) + 1
    ELSE CHOOSE i \in Failing : \A j \in Failing : i <= j

====
